---- MODULE Spec2Model ----
(***************************************************************************)
(* Model of biodivine-stdlib (src/src/lib.rs): the vertex-set contract,    *)
(* the evolution operator and the generic depth-first reachable_states.    *)
(***************************************************************************)
EXTENDS Integers, Sequences, FiniteSets, TLC

\* ---------------------------------------------------------------- bounds
\* most edges (entries of successor vectors) a graph has in all
MaxEdges == 4
\* longest period of an endless (cyclic) successor iterator
MaxCycle == 2
\* longest sequence of calls made on a vertex set in SetSpec
MaxOps == 3
\* call counters saturate here (2 already means "more than once")
CountCap == 2

\* the vertices of tests::it_works
Vertex == {"A", "B", "C"}

VARIABLES
    graph,      \* the evolution operator: vertex -> its successor sequence
    vertices,   \* SimpleGraph.vertices
    predecessors, \* SimpleGraph.predecessors
    source,     \* the source vertex of the call
    stack,      \* Vec<G::Iterator>, last element is the top
    result,     \* the vertex set being filled
    pc,         \* "start", "loop", "done", "panic"; "set" in SetSpec
    ret,        \* what the call returned
    failed,     \* the vertex graph.next panicked on, if any
    pushes,     \* per vertex: frames pushed for it
    inserts,    \* per vertex: result.insert calls for it
    insertRets, \* the values the result.insert calls have returned
    first,      \* TwoCallSpec: the arguments and the result of the first call
    log         \* SetSpec: the calls made on the set, with their outcome

\* the arguments of the call: the graph with its three fields, the source
args == <<graph, vertices, predecessors, source>>

vars ==
    <<graph, vertices, predecessors, source, stack, result, pc, ret, failed,
      pushes, inserts, insertRets, first, log>>

\* ------------------------------------------------------- helper operators
Range(s) == {s[i] : i \in 1..Len(s)}

SeqsUpTo(n) == UNION {[1..k -> Vertex] : k \in 0..n}

Bump(n) == IF n < CountCap THEN n + 1 ELSE CountCap

\* what the call has returned: nothing yet, or <<set>>
NoResult == <<>>

\* ------------------------------------------------------------ vertex set
\* variant: the new set starts from the vertices of the graph
NewVertexSet_Vertices(g) == DOMAIN g

\* HashVertexSet { set: HashSet::new() }
NewVertexSet(g) == {}

\* HashVertexSet::contains
Contains(set, vertex) == vertex \in set

\* variant: the emptiness test is negated
IsEmpty_Negated(set) == set # {}

\* HashVertexSet::is_empty
IsEmpty(set) == set = {}

\* HashVertexSet::insert: the set after the call, and the value returned
Insert(set, vertex) == set \cup {vertex}

\* variant: insert reports success whatever the set held
InsertRet_Always(set, vertex) == TRUE

InsertRet(set, vertex) == vertex \notin set

\* ----------------------------------------------------- evolution operator
\* An Iterator<Item=V>: the items it walks, the next position, and whether
\* it starts over at the end (an endless sequence; its period is written
\* out at least twice, so that every call of next() moves the position).
\* "of" remembers the vertex the iterator was made for, "wrapped" that an
\* endless iterator has been through all of its items.
\* variant: the last item of the sequence is never handed out
IterHasNext_DropLast(it) == it.pos < Len(it.items)

IterHasNext(it) == it.pos <= Len(it.items)

IterItem(it) == it.items[it.pos]

\* variant: next() is called twice, the first item is dropped
IterAdvance_Two(it) ==
    IF it.cyclic /\ it.pos = Len(it.items)
    THEN [it EXCEPT !.pos = 1, !.wrapped = TRUE]
    ELSE [it EXCEPT !.pos = IF it.pos < Len(it.items) THEN it.pos + 2 ELSE it.pos + 1]

IterAdvance(it) ==
    IF it.cyclic /\ it.pos = Len(it.items)
    THEN [it EXCEPT !.pos = 1, !.wrapped = TRUE]
    ELSE [it EXCEPT !.pos = it.pos + 1]

\* the successor sequences an operator may give for one vertex: a finite
\* vector (SimpleGraph), or an endless sequence that repeats a short one
Successors(n) ==
    [items : SeqsUpTo(n), cyclic : {FALSE}] \cup
    [items : {q \in SeqsUpTo(IF n < MaxCycle THEN n ELSE MaxCycle) : Len(q) >= 2},
     cyclic : {TRUE}]

\* graph.next(source) is defined: successors.get(source) is Some
Resolves(g, v) == v \in DOMAIN g

\* variant: the iterator starts behind the first successor
GraphNext_SkipFirst(g, v) ==
    [of |-> v, items |-> g[v].items, pos |-> 2, cyclic |-> g[v].cyclic,
     wrapped |-> FALSE]

\* variant: the operator walks the predecessors map
GraphNext_Predecessors(g, v) ==
    [of |-> v, items |-> predecessors[v], pos |-> 1, cyclic |-> FALSE,
     wrapped |-> FALSE]

\* graph.next(source): successors.get(source).unwrap().clone().into_iter()
GraphNext(g, v) ==
    [of |-> v, items |-> g[v].items, pos |-> 1, cyclic |-> g[v].cyclic,
     wrapped |-> FALSE]

\* the operators over the vertices D with at most n edges
RECURSIVE GraphsOver(_, _)
GraphsOver(D, n) ==
    IF D = {} THEN {<<>>}
    ELSE LET v == CHOOSE x \in D : TRUE IN
         UNION {{g @@ (v :> e) : g \in GraphsOver(D \ {v}, n - Len(e.items))} :
                e \in Successors(n)}

\* SimpleGraph.successors, or any other EvolutionOperator: the vertices
\* outside its domain are the ones it cannot resolve
Graphs == UNION {GraphsOver(D, MaxEdges) : D \in SUBSET Vertex}

\* a fixed order of the vertices, to write sets of them as vectors
VertexOrder == <<"A", "B", "C">>

\* the predecessors map that matches the successors of g
Inverse(g) ==
    [v \in DOMAIN g |->
        SelectSeq(VertexOrder, LAMBDA u : u \in DOMAIN g /\ v \in Range(g[u].items))]

\* the graph of tests::it_works: A -> B, B -> C, C -> C
TestGraph ==
    [A |-> [items |-> <<"B">>, cyclic |-> FALSE],
     B |-> [items |-> <<"C">>, cyclic |-> FALSE],
     C |-> [items |-> <<"C">>, cyclic |-> FALSE]]

\* ------------------------------------------------------- reachable_states
Init ==
    /\ graph \in Graphs
    /\ vertices = DOMAIN graph
    /\ predecessors = Inverse(graph)
    /\ insertRets = {}
    /\ first = <<>>
    /\ source \in Vertex
    /\ stack = <<>>
    /\ result = {}
    /\ pc = "start"
    /\ ret = NoResult
    /\ failed = <<>>
    /\ pushes = [v \in Vertex |-> 0]
    /\ inserts = [v \in Vertex |-> 0]
    /\ log = <<>>

\* variant: the source is pushed but not inserted
Begin_NoInsert ==
    /\ pc = "start"
    /\ IF Resolves(graph, source)
       THEN /\ stack' = <<GraphNext(graph, source)>>
            /\ result' = NewVertexSet(graph)
            /\ pushes' = [pushes EXCEPT ![source] = Bump(@)]
            /\ pc' = "loop"
            /\ UNCHANGED <<failed, inserts, insertRets>>
       ELSE /\ pc' = "panic"
            /\ failed' = <<source>>
            /\ UNCHANGED <<stack, result, pushes, inserts, insertRets>>
    /\ UNCHANGED <<args, first, ret, log>>

\* lines 95-98: new stack, new set, push graph.next(source), insert source
Begin ==
    /\ pc = "start"
    /\ IF Resolves(graph, source)
       THEN /\ stack' = <<GraphNext(graph, source)>>
            /\ result' = Insert(NewVertexSet(graph), source)
            /\ pushes' = [pushes EXCEPT ![source] = Bump(@)]
            /\ inserts' = [inserts EXCEPT ![source] = Bump(@)]
            /\ insertRets' = insertRets \cup {InsertRet(NewVertexSet(graph), source)}
            /\ pc' = "loop"
            /\ UNCHANGED failed
       ELSE /\ pc' = "panic"
            /\ failed' = <<source>>
            /\ UNCHANGED <<stack, result, pushes, inserts, insertRets>>
    /\ UNCHANGED <<args, first, ret, log>>

Top == stack[Len(stack)]

WithTop(it) == [stack EXCEPT ![Len(stack)] = it]

\* variant: a vertex the operator cannot resolve counts as a sink
Descend_Lenient ==
    /\ pc = "loop"
    /\ stack # <<>>
    /\ IterHasNext(Top)
    /\ LET t == IterItem(Top)
           it == IF Resolves(graph, t)
                 THEN GraphNext(graph, t)
                 ELSE [of |-> t, items |-> <<>>, pos |-> 1, cyclic |-> FALSE,
                       wrapped |-> FALSE]
       IN  /\ ~Contains(result, t)
           /\ stack' = Append(WithTop(IterAdvance(Top)), it)
           /\ result' = Insert(result, t)
           /\ pushes' = [pushes EXCEPT ![t] = Bump(@)]
           /\ inserts' = [inserts EXCEPT ![t] = Bump(@)]
           /\ insertRets' = insertRets \cup {InsertRet(result, t)}
    /\ UNCHANGED <<args, first, pc, ret, failed, log>>

\* variant: the frame pushed for t walks the successors of the source
Descend_Source ==
    /\ pc = "loop"
    /\ stack # <<>>
    /\ IterHasNext(Top)
    /\ LET t == IterItem(Top) IN
       /\ ~Contains(result, t)
       /\ stack' = Append(WithTop(IterAdvance(Top)), GraphNext(graph, source))
       /\ result' = Insert(result, t)
       /\ pushes' = [pushes EXCEPT ![t] = Bump(@)]
       /\ inserts' = [inserts EXCEPT ![t] = Bump(@)]
       /\ insertRets' = insertRets \cup {InsertRet(result, t)}
    /\ UNCHANGED <<args, first, pc, ret, failed, log>>

\* lines 100-105, t is new: push graph.next(t), then insert t
Descend ==
    /\ pc = "loop"
    /\ stack # <<>>
    /\ IterHasNext(Top)
    /\ LET t == IterItem(Top) IN
       /\ ~Contains(result, t)
       /\ IF Resolves(graph, t)
          THEN /\ stack' = Append(WithTop(IterAdvance(Top)), GraphNext(graph, t))
               /\ result' = Insert(result, t)
               /\ pushes' = [pushes EXCEPT ![t] = Bump(@)]
               /\ inserts' = [inserts EXCEPT ![t] = Bump(@)]
               /\ insertRets' = insertRets \cup {InsertRet(result, t)}
               /\ UNCHANGED <<pc, failed>>
          ELSE /\ stack' = WithTop(IterAdvance(Top))
               /\ pc' = "panic"
               /\ failed' = <<t>>
               /\ UNCHANGED <<result, pushes, inserts, insertRets>>
    /\ UNCHANGED <<args, first, ret, log>>

\* variant: the top iterator is looked at but not advanced
Skip_NoAdvance ==
    /\ pc = "loop"
    /\ stack # <<>>
    /\ IterHasNext(Top)
    /\ Contains(result, IterItem(Top))
    /\ UNCHANGED vars

\* variant: a visited vertex is inserted once more
Skip_Reinsert ==
    /\ pc = "loop"
    /\ stack # <<>>
    /\ IterHasNext(Top)
    /\ Contains(result, IterItem(Top))
    /\ stack' = WithTop(IterAdvance(Top))
    /\ result' = Insert(result, IterItem(Top))
    /\ inserts' = [inserts EXCEPT ![IterItem(Top)] = Bump(@)]
    /\ insertRets' = insertRets \cup {InsertRet(result, IterItem(Top))}
    /\ UNCHANGED <<args, first, pc, ret, failed, pushes, log>>

\* variant: a visited vertex gets a frame once more
Skip_Push ==
    /\ pc = "loop"
    /\ stack # <<>>
    /\ IterHasNext(Top)
    /\ Contains(result, IterItem(Top))
    /\ stack' = Append(WithTop(IterAdvance(Top)), GraphNext(graph, IterItem(Top)))
    /\ pushes' = [pushes EXCEPT ![IterItem(Top)] = Bump(@)]
    /\ UNCHANGED <<args, first, result, pc, ret, failed, inserts, insertRets, log>>

\* variant: a visited vertex ends the walk of the top iterator
Skip_Break ==
    /\ pc = "loop"
    /\ stack # <<>>
    /\ IterHasNext(Top)
    /\ Contains(result, IterItem(Top))
    /\ stack' = SubSeq(stack, 1, Len(stack) - 1)
    /\ UNCHANGED <<args, first, result, pc, ret, failed, pushes, inserts, insertRets, log>>

\* lines 100-102, t already visited: nothing but the iterator moves
Skip ==
    /\ pc = "loop"
    /\ stack # <<>>
    /\ IterHasNext(Top)
    /\ Contains(result, IterItem(Top))
    /\ stack' = WithTop(IterAdvance(Top))
    /\ UNCHANGED <<args, first, result, pc, ret, failed, pushes, inserts, insertRets, log>>

\* variant: the exhausted iterator stays on the stack
Pop_NoPop ==
    /\ pc = "loop"
    /\ stack # <<>>
    /\ ~IterHasNext(Top)
    /\ UNCHANGED vars

\* lines 106-108: the top iterator is exhausted
Pop ==
    /\ pc = "loop"
    /\ stack # <<>>
    /\ ~IterHasNext(Top)
    /\ stack' = SubSeq(stack, 1, Len(stack) - 1)
    /\ UNCHANGED <<args, first, result, pc, ret, failed, pushes, inserts, insertRets, log>>

\* lines 99 and 110: stack.last_mut() is None, return result
Return ==
    /\ pc = "loop"
    /\ stack = <<>>
    /\ pc' = "done"
    /\ ret' = <<result>>
    /\ UNCHANGED <<args, first, stack, result, failed, pushes, inserts, insertRets, log>>

Next == Begin \/ Descend \/ Skip \/ Pop \/ Return

Spec == Init /\ [][Next]_vars

\* one call runs to completion on the calling thread
FairSpec == Init /\ [][Next]_vars /\ WF_vars(Next)

\* --------------------------------------------------- a second call
\* the vectors with the items of q in any order
Orders(q) ==
    {r \in [1..Len(q) -> Range(q)] :
        \A x \in Range(q) :
            Cardinality({i \in 1..Len(q) : r[i] = x})
              = Cardinality({i \in 1..Len(q) : q[i] = x})}

\* the operators that yield, for every vertex in D, the successors g yields,
\* in any order
RECURSIVE ReorderedOver(_, _)
ReorderedOver(g, D) ==
    IF D = {} THEN {<<>>}
    ELSE LET v == CHOOSE x \in D : TRUE IN
         UNION {{h @@ (v :> [items |-> r, cyclic |-> g[v].cyclic]) :
                    h \in ReorderedOver(g, D \ {v})} :
                r \in Orders(g[v].items)}

Reorderings(g) == ReorderedOver(g, DOMAIN g)

\* the caller keeps the outcome of the first call and calls again
CallAgain ==
    /\ pc = "done"
    /\ first = <<>>
    /\ first' = <<[graph |-> graph, vertices |-> vertices,
                   predecessors |-> predecessors, source |-> source,
                   ret |-> ret[1]]>>
    /\ stack' = <<>>
    /\ result' = {}
    /\ pc' = "start"
    /\ ret' = NoResult
    /\ pushes' = [v \in Vertex |-> 0]
    /\ inserts' = [v \in Vertex |-> 0]
    /\ insertRets' = {}
    /\ UNCHANGED <<source, failed, log>>

\* lines 149-151: a further call, on a graph whose successor vectors hold
\* the same vertices in another order
CallReordered ==
    /\ CallAgain
    /\ graph' \in Reorderings(graph)
    /\ UNCHANGED <<vertices, predecessors>>

\* lines 149-151: a further call, on a graph with the same successors map
\* and any vertices set and predecessors map
CallOtherFields ==
    /\ CallAgain
    /\ vertices' \in {DOMAIN graph, Vertex}
    /\ predecessors' \in {Inverse(graph), [v \in DOMAIN graph |-> <<>>]}
    /\ UNCHANGED graph

TwoCallNext == Next \/ CallReordered \/ CallOtherFields

TwoCallSpec == Init /\ [][TwoCallNext]_vars

\* ------------------------------------------- the vertex set on its own
\* a caller holding the set of new_vertex_set and calling its operations
SetInit ==
    /\ graph = TestGraph
    /\ vertices = DOMAIN graph
    /\ predecessors = Inverse(graph)
    /\ insertRets = {}
    /\ first = <<>>
    /\ source = "A"
    /\ stack = <<>>
    /\ result = NewVertexSet(graph)
    /\ pc = "set"
    /\ ret = NoResult
    /\ failed = <<>>
    /\ pushes = [v \in Vertex |-> 0]
    /\ inserts = [v \in Vertex |-> 0]
    /\ log = <<>>

Logged(op, arg, r) ==
    [op |-> op, arg |-> arg, ret |-> r, before |-> result, after |-> result']

CallInsert(v) ==
    /\ pc = "set"
    /\ Len(log) < MaxOps
    /\ result' = Insert(result, v)
    /\ log' = Append(log, Logged("insert", v, InsertRet(result, v)))
    /\ UNCHANGED <<args, first, stack, pc, ret, failed, pushes, inserts, insertRets>>

CallContains(v) ==
    /\ pc = "set"
    /\ Len(log) < MaxOps
    /\ result' = result
    /\ log' = Append(log, Logged("contains", v, Contains(result, v)))
    /\ UNCHANGED <<args, first, stack, pc, ret, failed, pushes, inserts, insertRets>>

CallIsEmpty ==
    /\ pc = "set"
    /\ Len(log) < MaxOps
    /\ result' = result
    /\ log' = Append(log, Logged("is_empty", "-", IsEmpty(result)))
    /\ UNCHANGED <<args, first, stack, pc, ret, failed, pushes, inserts, insertRets>>

SetNext ==
    \/ \E v \in Vertex : CallInsert(v)
    \/ \E v \in Vertex : CallContains(v)
    \/ CallIsEmpty

SetSpec == SetInit /\ [][SetNext]_vars

TypeOK ==
    /\ graph \in Graphs
    /\ vertices \subseteq Vertex
    /\ DOMAIN predecessors = DOMAIN graph
    /\ source \in Vertex
    /\ insertRets \subseteq BOOLEAN
    /\ Len(first) <= 1
    /\ result \subseteq Vertex
    /\ pc \in {"start", "loop", "done", "panic", "set"}
    /\ failed \in {<<>>} \cup {<<v>> : v \in Vertex}
    /\ ret \in {NoResult} \cup {<<R>> : R \in SUBSET Vertex}
\* ------------------------------------------------ graph-theoretic notions
\* the vertices the operator yields for v (none when it cannot resolve v)
Yield(g, v) == IF v \in DOMAIN g THEN Range(g[v].items) ELSE {}

\* the least set that contains S and is closed under Yield
RECURSIVE ReachFrom(_, _)
ReachFrom(g, S) ==
    LET N == S \cup UNION {Yield(g, v) : v \in S}
    IN  IF N = S THEN S ELSE ReachFrom(g, N)

\* the vertices reachable from the source in zero or more steps
Reach == ReachFrom(graph, {source})

\* v lies on a cycle (a self-loop included)
OnCycle(v) == v \in ReachFrom(graph, Yield(graph, v))

\* the operator resolves every vertex reachable from the source
ResolvableReach == \A v \in Reach : Resolves(graph, v)

\* every successor sequence of a reachable vertex ends
FiniteReach == \A v \in Reach \cap DOMAIN graph : ~graph[v].cyclic

\* every successor sequence of the graph ends
FiniteGraph == \A v \in DOMAIN graph : ~graph[v].cyclic

Returned == pc = "done" /\ Len(ret) = 1

\* ----------------------------------------------------------------- claims

\* C1: on a finite graph whose reachable vertices all resolve, the set
\* returned by reachable_states holds v iff v is reachable from the source
\* in zero or more steps; on A->B, B->C, C->C the results are {A,B,C},
\* {B,C} and {C}.
C1_ReachableExact ==
    /\ (pc = "done" /\ FiniteGraph /\ ResolvableReach)
         => (Len(ret) = 1 /\ \A v \in Vertex : Contains(ret[1], v) <=> v \in Reach)
    /\ (pc = "done" /\ graph = TestGraph)
         => ret = <<CASE source = "A" -> {"A", "B", "C"}
                      [] source = "B" -> {"B", "C"}
                      [] source = "C" -> {"C"}>>

C1_Witness ==
    /\ graph = TestGraph
    /\ source = "A"
    /\ pc = "done"
    /\ ret = <<{"A", "B", "C"}>>

\* C2 as claimed: whenever the operator resolves every reachable vertex
\* (the reachable set being finite), the call terminates with an empty
\* stack and a returned result, endless successor sequences included.
C2_Original == ResolvableReach => <>(Returned /\ stack = <<>>)

\* C2 amended: the call terminates when, besides, every vertex reachable
\* from the source has a finite successor sequence; what the operator does
\* on unreachable vertices (fail, or yield without end) does not matter.
C2_Terminates ==
    (ResolvableReach /\ FiniteReach) => <>(Returned /\ stack = <<>>)

C2_Witness ==
    /\ Returned
    /\ stack = <<>>
    /\ \E v \in Vertex \ Reach : ~Resolves(graph, v)
    /\ \E v \in Vertex \ Reach : Resolves(graph, v) /\ graph[v].cyclic

\* C3: with finite successor lists and a cycle or self-loop reachable from
\* the source, the call terminates, no vertex is ever inserted or pushed
\* twice, and every reachable vertex on a cycle has been inserted exactly
\* once and got exactly one frame.
C3_CycleSafe ==
    (ResolvableReach /\ FiniteReach /\ \E v \in Reach : OnCycle(v))
      => /\ [](\A v \in Vertex : pushes[v] <= 1 /\ inserts[v] <= 1)
         /\ <>(/\ Returned
               /\ \A v \in Reach : OnCycle(v) =>
                     /\ Contains(ret[1], v)
                     /\ inserts[v] = 1
                     /\ pushes[v] = 1)

C3_Witness ==
    /\ Returned
    /\ ResolvableReach /\ FiniteReach
    /\ \E v \in Reach : v # source /\ OnCycle(v) /\ v \in Yield(graph, v)
    /\ \E v \in Reach : OnCycle(v) /\ v \notin Yield(graph, v)

\* C4: the returned set is closed: every vertex the operator yields for a
\* member of the returned set is a member too.
C4_Closure ==
    Returned =>
        \A v \in Vertex : Contains(ret[1], v) =>
            \A w \in Yield(graph, v) : Contains(ret[1], w)

C4_Witness ==
    /\ Returned
    /\ \E v \in ret[1] : Cardinality(Yield(graph, v)) >= 2
    /\ Cardinality(ret[1]) = 3

\* C5: in every state of the call the visited set holds only vertices
\* reachable from the source; on A->B, B->C, C->C the sets computed from B
\* and from C never hold A.
C5_Minimality ==
    /\ \A v \in Vertex : Contains(result, v) => v \in Reach
    /\ Len(ret) = 1 => \A v \in Vertex : Contains(ret[1], v) => v \in Reach
    /\ (graph = TestGraph /\ source \in {"B", "C"}) => ~Contains(result, "A")

C5_Witness ==
    /\ Returned
    /\ graph = TestGraph
    /\ source = "B"
    /\ ~Contains(ret[1], "A")
    /\ source \in Yield(graph, "A")

\* C6: from the first loop iteration on the source is in the visited set,
\* and the returned set holds the source and is not empty.
C6_Reflexivity ==
    /\ pc \in {"loop", "done"} => Contains(result, source) /\ ~IsEmpty(result)
    /\ pc = "done" => Len(ret) = 1 /\ Contains(ret[1], source) /\ ~IsEmpty(ret[1])

C6_Witness ==
    /\ Returned
    /\ Contains(ret[1], source)
    /\ source \notin UNION {Yield(graph, v) : v \in Vertex}

\* the graph is one vertex, the source, without outgoing edges
Isolated ==
    /\ DOMAIN graph = {source}
    /\ graph[source] = [items |-> <<>>, cyclic |-> FALSE]

\* C7: on a single isolated vertex X the call terminates and returns
\* exactly {X}.
C7_SinkSource ==
    Isolated => /\ <>(Returned /\ ret = <<{source}>>)
                /\ [](ret \in {NoResult, <<{source}>>})

C7_Witness == Isolated /\ Returned /\ ret = <<{source}>>

\* insert(v) was called before the i-th call of the log
InsertedBefore(i, v) ==
    \E j \in 1..(i - 1) : log[j].op = "insert" /\ log[j].arg = v

\* C8: insert(v) returns true exactly when v was absent before the call;
\* a repeated insert(v) returns false and changes no contains(w).
C8_IdempotentInsert ==
    \A i \in 1..Len(log) : log[i].op = "insert" =>
        /\ log[i].ret = (log[i].arg \notin log[i].before)
        /\ log[i].ret = ~InsertedBefore(i, log[i].arg)
        /\ InsertedBefore(i, log[i].arg) =>
              /\ log[i].ret = FALSE
              /\ \A w \in Vertex :
                    Contains(log[i].after, w) = Contains(log[i].before, w)

C8_Witness ==
    /\ Len(log) >= 2
    /\ log[1].op = "insert" /\ log[1].ret = TRUE
    /\ log[2].op = "insert" /\ log[2].arg = log[1].arg /\ log[2].ret = FALSE

\* C9: from the set of new_vertex_set on, is_empty() is true iff nothing
\* has been inserted, contains(v) is true iff v has been inserted, and
\* contains and is_empty leave the set as it was.
C9_SetSemantics ==
    /\ IsEmpty(result) = (\A v \in Vertex : ~InsertedBefore(Len(log) + 1, v))
    /\ \A v \in Vertex : Contains(result, v) = InsertedBefore(Len(log) + 1, v)
    /\ \A i \in 1..Len(log) :
          /\ log[i].op = "is_empty" =>
                /\ log[i].ret = (\A v \in Vertex : ~InsertedBefore(i, v))
                /\ log[i].after = log[i].before
          /\ log[i].op = "contains" =>
                /\ log[i].ret = InsertedBefore(i, log[i].arg)
                /\ log[i].after = log[i].before

C9_Witness ==
    /\ Len(log) = 3
    /\ log[1].op = "is_empty" /\ log[1].ret = TRUE
    /\ log[2].op = "insert"
    /\ log[3].op = "contains" /\ log[3].arg = log[2].arg /\ log[3].ret = TRUE

\* the operator fails on some vertex reachable from the source
UnresolvableReach == \E v \in Reach : ~Resolves(graph, v)

\* the call has ended in failure, at the first query of a vertex the
\* operator cannot resolve, and has returned nothing
FailedAtFirstQuery ==
    /\ pc = "panic"
    /\ ret = NoResult
    /\ Len(failed) = 1
    /\ ~Resolves(graph, failed[1])
    /\ failed[1] \in Reach
    /\ pushes[failed[1]] = 0
    /\ ~Contains(result, failed[1])
    /\ \A v \in Vertex : pushes[v] > 0 => Resolves(graph, v)

\* C10 as claimed: if the operator fails on a vertex reachable from the
\* source, the call ends in failure, at the first query of that vertex,
\* without a result.
C10_Original == UnresolvableReach => <>FailedAtFirstQuery

\* C10 amended: if the operator fails on a vertex reachable from the
\* source, the call never returns a result, and any failure is at the first
\* query of an unresolvable vertex and is final; if moreover the successor
\* sequences of the reachable vertices are finite, the call does end in
\* failure.
C10_FailurePropagates ==
    UnresolvableReach =>
        /\ [](ret = NoResult /\ pc # "done")
        /\ [](pc = "panic" => []FailedAtFirstQuery)
        /\ FiniteReach => <>[]FailedAtFirstQuery

C10_Witness ==
    /\ FailedAtFirstQuery
    /\ failed[1] # source
    /\ Len(stack) >= 2
    /\ FiniteReach
\* the second call has returned
SecondReturned == Returned /\ Len(first) = 1

\* g and h have the same vertices and yield, for each of them, the same
\* successors, in whatever order
SameUpToOrder(g, h) ==
    /\ DOMAIN g = DOMAIN h
    /\ \A v \in DOMAIN g :
          /\ g[v].cyclic = h[v].cyclic
          /\ h[v].items \in Orders(g[v].items)

\* C11: two operators over the same finite graph that yield the same
\* successors in a different order give the same reachable set from the
\* same source.
C11_OrderIndependent ==
    (/\ SecondReturned
     /\ FiniteGraph
     /\ source = first[1].source
     /\ SameUpToOrder(first[1].graph, graph))
        => ret[1] = first[1].ret

C11_Witness ==
    /\ SecondReturned
    /\ FiniteGraph
    /\ graph # first[1].graph
    /\ SameUpToOrder(first[1].graph, graph)
    /\ ret[1] = first[1].ret
    /\ Cardinality(ret[1]) = 3
\* C12: the operator is queried, and a frame pushed, exactly once for every
\* vertex of the result and never for another one: per vertex the pushes
\* equal the inserts, and a step pushes a frame only for a vertex that was
\* not visited.
C12_OneFramePerVertex ==
    /\ [](\A v \in Vertex :
            /\ pushes[v] = inserts[v]
            /\ pushes[v] = IF Contains(result, v) THEN 1 ELSE 0)
    /\ [](Returned => \A v \in Vertex :
            pushes[v] = IF Contains(ret[1], v) THEN 1 ELSE 0)
    /\ [][\A v \in Vertex : pushes'[v] # pushes[v] =>
            /\ ~Contains(result, v)
            /\ Contains(result', v)
            /\ pushes'[v] = 1
            /\ Len(stack') = Len(stack) + 1 \/ pc = "start"
            /\ stack'[Len(stack')].of = v]_vars

C12_Witness ==
    /\ Returned
    /\ Cardinality(ret[1]) = 3
    /\ \A v \in Vertex : pushes[v] = 1 /\ inserts[v] = 1
    /\ \E v \in Vertex : Len(graph[v].items) >= 2 /\ Cardinality(Range(graph[v].items)) = 1
\* the item the iterator handed out last
LastItem(it) ==
    it.items[IF it.pos = 1 THEN Len(it.items) ELSE it.pos - 1]

\* C13: the frames on the stack belong to pairwise distinct visited
\* vertices, the bottom one to the source, each of the others to the
\* successor last taken from the frame below it; so the stack is never
\* deeper than the visited set is large.
C13_StackIsPath ==
    /\ \A i \in 1..Len(stack) :
          /\ Contains(result, stack[i].of)
          /\ Resolves(graph, stack[i].of)
          /\ stack[i].items = graph[stack[i].of].items
    /\ \A i, j \in 1..Len(stack) : i # j => stack[i].of # stack[j].of
    /\ stack # <<>> => stack[1].of = source
    /\ \A i \in 1..(Len(stack) - 1) :
          /\ stack[i + 1].of \in Yield(graph, stack[i].of)
          /\ stack[i + 1].of = LastItem(stack[i])
    /\ Len(stack) <= Cardinality(result)

C13_Witness ==
    /\ pc = "loop"
    /\ Len(stack) = 3
    /\ Cardinality(result) = 3
    /\ source \in Yield(graph, stack[3].of)
\* C14: a loop iteration moves the top iterator by one item and leaves the
\* frames below it as they are; a frame goes only when its iterator is
\* exhausted, and then alone; the result is returned when the stack is
\* empty and not before.
C14_StackDiscipline ==
    /\ [][(pc = "loop" /\ stack # <<>>) =>
            LET n == Len(stack) IN
            /\ Len(stack') >= n - 1
            /\ \A i \in 1..(n - 1) : stack'[i] = stack[i]
            /\ IF IterHasNext(Top)
               THEN /\ Len(stack') \in {n, n + 1}
                    /\ stack'[n].of = Top.of
                    /\ stack'[n].items = Top.items
                    /\ stack'[n].pos =
                          IF Top.cyclic /\ Top.pos = Len(Top.items)
                          THEN 1 ELSE Top.pos + 1
               ELSE Len(stack') = n - 1
            /\ pc' # "done"
            /\ ret' = NoResult]_vars
    /\ [][(pc = "loop" /\ stack = <<>>) => (pc' = "done" /\ ret' = <<result>>)]_vars
    /\ [][(pc' = "done" /\ pc # "done") => (pc = "loop" /\ stack = <<>>)]_vars
    /\ [](Len(ret) = 1 => (pc = "done" /\ stack = <<>>))

C14_Witness ==
    /\ pc = "loop"
    /\ Len(stack) = 2
    /\ ~IterHasNext(Top)
    /\ IterHasNext(stack[1])
    /\ stack[1].pos = 2
    /\ Len(stack[2].items) = 2
\* C15: the steps of reachable_states leave the graph (vertices,
\* successors, predecessors) and the source as they are, and a further
\* call from the same source on a graph with the same successors map, be
\* it the same graph or one with another vertices set or predecessors map,
\* returns the same set.
C15_ReadOnlyForwardOnly ==
    /\ [][(pc = "start" \/ pc = "loop") => UNCHANGED args]_vars
    /\ []((/\ SecondReturned
           /\ first[1].graph = graph
           /\ first[1].source = source) => ret[1] = first[1].ret)

C15_Witness ==
    /\ SecondReturned
    /\ first[1].graph = graph
    /\ first[1].vertices # vertices
    /\ first[1].predecessors # predecessors
    /\ ret[1] = first[1].ret
    /\ Cardinality(ret[1]) = 2
\* a frame of v is on the stack
HasFrame(v) == \E i \in 1..Len(stack) : stack[i].of = v

\* the successors the iterator has handed out so far
Consumed(it) ==
    IF it.wrapped THEN Range(it.items)
    ELSE {it.items[i] : i \in 1..(it.pos - 1)}

\* every visited vertex without a frame has all its successors visited
FinishedClosed ==
    \A v \in Vertex : (Contains(result, v) /\ ~HasFrame(v)) =>
        \A w \in Yield(graph, v) : Contains(result, w)

\* C16 as claimed: in every state, every visited vertex without a frame
\* has all its successors visited, and every successor consumed from a
\* frame on the stack is visited.
C16_Original ==
    /\ FinishedClosed
    /\ \A i \in 1..Len(stack) :
          \A w \in Consumed(stack[i]) : Contains(result, w)

\* C16 amended: the same, except that in the state in which the operator
\* has failed the successor it failed on has been consumed from the top
\* frame and is not visited.
C16_FinishedClosed ==
    /\ FinishedClosed
    /\ \A i \in 1..Len(stack) :
          \A w \in Consumed(stack[i]) :
              \/ Contains(result, w)
              \/ /\ pc = "panic"
                 /\ failed = <<w>>
                 /\ i = Len(stack)
                 /\ w = LastItem(stack[i])
    /\ pc # "panic" => failed = <<>>

C16_Witness ==
    /\ pc = "loop"
    /\ Len(stack) = 1
    /\ stack[1].pos = 2
    /\ IterHasNext(stack[1])
    /\ \E v \in Vertex :
          /\ Contains(result, v)
          /\ ~HasFrame(v)
          /\ Cardinality(Yield(graph, v)) = 2
\* C17: no step takes a vertex out of the visited set, and every insert of
\* the call, of the source into the new set and of each newly found
\* vertex, adds a vertex that was absent and so returns true.
C17_VisitedGrows ==
    /\ [][\A v \in Vertex : Contains(result, v) => Contains(result', v)]_vars
    /\ [](insertRets \subseteq {TRUE})
    /\ [][\A v \in Vertex : inserts'[v] # inserts[v] =>
            /\ ~Contains(result, v)
            /\ Contains(result', v)
            /\ TRUE \in insertRets']_vars
    /\ [][(pc = "start" /\ pc' = "loop") => result' = {source}]_vars

C17_Witness ==
    /\ Returned
    /\ insertRets = {TRUE}
    /\ Cardinality(ret[1]) = 3
    /\ OnCycle(source)
    /\ \A v \in Vertex : inserts[v] = 1
====
